---- MODULE Spec2Model ----
(***************************************************************************)
(* Stitch-cafe: order generation, special events and progression of a      *)
(* player, as implemented by commands/order.py, database.py,               *)
(* data/special_orders.py and data/levels.py.                              *)
(*                                                                         *)
(* The users table is the variable `users` (user id -> row, or NoRow).     *)
(* Every handler is one action; the random source of a request is an       *)
(* input of the action.  `reply` is what the last handler answered, and    *)
(* `nDone`, `sumDone`, `prevDoneTag`, `lastDoneTag`, `gap` are history     *)
(* variables that record what was completed, independently of the row.     *)
(* `result` is the value returned by the last direct call of one of the    *)
(* pure functions (generate_regular_order, the halving, check_special_     *)
(* order) in the specifications that apply them to drawn inputs.           *)
(* `fault` names the storage write that was rejected during the last       *)
(* request ("none" when the storage accepted every write).                 *)
(* Requests are those that pass the chat filter of the handlers.           *)
(***************************************************************************)
EXTENDS Integers, Sequences, FiniteSets, TLC

VARIABLES users, DISHES_BY_LEVEL, reply, nDone, sumDone, prevDoneTag, lastDoneTag,
          gap, result, fault, nEvent, handlers

vars ==
  <<users, DISHES_BY_LEVEL, reply, nDone, sumDone, prevDoneTag, lastDoneTag, gap,
    result, fault, nEvent, handlers>>

(***************************************************************************)
(* Bounds of the model                                                     *)
(***************************************************************************)
\* completed orders per user after which no further order is completed: past
\* the last achievement threshold (200)
MaxOrders == 201
\* the same, in the game played on a storage that rejects writes
MaxFaultyOrders == 4
\* completions made by direct calls of finish_order_and_level
MaxDbOrders == 2
\* done requests that find an active order, in the game with done requests in
\* flight at the same time
MaxRaceOrders == 2

(***************************************************************************)
(* Values                                                                  *)
(***************************************************************************)
\* Python None as an order tag, JSON null, SQL NULL, a missing row and a
\* missing dict
None == "None"
JsonNull == "null"
SqlNull == [sql |-> "NULL"]
NoRow == [row |-> "absent"]
NoOrder == [order |-> "None"]
NoDish == <<"", 0>>
\* no pure function was called directly
NoResult == [fn |-> "none"]

\* the done requests that can be in flight at the same time, and a handler
\* that is not running
Handlers == {1, 2}
IdleHandler == [pc |-> "idle"]

\* data/levels.py
LEVELS == [lv \in 0..4 |->
             CASE lv = 0 -> "Trainee"
               [] lv = 1 -> "Kitchen helper"
               [] lv = 2 -> "Cook"
               [] lv = 3 -> "Sous-chef"
               [] lv = 4 -> "Chef"]
ORDERS_PER_LEVEL == 10
MAX_LEVEL == CHOOSE m \in DOMAIN LEVELS : \A k \in DOMAIN LEVELS : k <= m

\* LEVELS.get(level, f"Level {level}")
TitleOf(level) == IF level \in DOMAIN LEVELS THEN LEVELS[level] ELSE "Level ?"

\* data/special_orders.py: the table, in dict (insertion) order; probabilities
\* in hundredths
SPECIAL_ORDERS ==
  << [tag |-> "dirty_plate", probability |-> 15, min_order_index |-> 3,
      max_order_index |-> 40, user_flag |-> "has_dirty_plate_done",
      type |-> "double_previous", dish |-> NoDish],
     [tag |-> "student", probability |-> 12, min_order_index |-> 3,
      max_order_index |-> 40, user_flag |-> "has_student_done",
      type |-> "regular", dish |-> <<"noodles", 100>>],
     [tag |-> "critic", probability |-> 10, min_order_index |-> 20,
      max_order_index |-> 40, user_flag |-> "has_critic_done",
      type |-> "regular", dish |-> <<"oysters", 1000>>],
     [tag |-> "second_chef", probability |-> 12, min_order_index |-> 3,
      max_order_index |-> 40, user_flag |-> "has_second_chef_done",
      type |-> "half_next", dish |-> NoDish] >>

EventTags == {SPECIAL_ORDERS[i].tag : i \in DOMAIN SPECIAL_ORDERS}

\* as ConfigOf, with the critic served the configuration of the student
ConfigOfFirstDish(tag) ==
  IF tag = "critic" THEN SPECIAL_ORDERS[2]
  ELSE SPECIAL_ORDERS[CHOOSE i \in DOMAIN SPECIAL_ORDERS :
                        SPECIAL_ORDERS[i].tag = tag]

\* SPECIAL_ORDERS[tag]
ConfigOf(tag) ==
  SPECIAL_ORDERS[CHOOSE i \in DOMAIN SPECIAL_ORDERS : SPECIAL_ORDERS[i].tag = tag]

\* values of random.random() in hundredths, and the draws of one request (the
\* k-th call of random.random() returns draws[k])
DrawValues == {0, 11, 12, 99}
DrawSeqs == [1..4 -> DrawValues]

\* the random indices of one request: the index random.choice draws, and the
\* indices random.shuffle draws for the leading positions of the pool
PickValues == {0, 1}
PickSeqs == {<<p>> : p \in PickValues}

\* the dish catalog of the game (data/dishes.py): one pool per level, every
\* level with at least one dish and level 0 with three; the crosses cover the
\* value 1, an odd and an even value
GameCatalog ==
  [lv \in 0..4 |->
     CASE lv = 0 -> << <<"tea", 1>>, <<"toast", 5>>, <<"salad", 8>> >>
       [] lv = 1 -> << <<"soup", 8>> >>
       [] lv = 2 -> << <<"pasta", 8>> >>
       [] lv = 3 -> << <<"steak", 8>> >>
       [] lv = 4 -> << <<"lobster", 8>> >>]

(***************************************************************************)
(* Helpers on sequences                                                    *)
(***************************************************************************)
InSeq(x, s) == \E i \in DOMAIN s : s[i] = x

RemoveAt(s, i) == SubSeq(s, 1, i - 1) \o SubSeq(s, i + 1, Len(s))

RECURSIVE SumCrosses(_)
\* sum(v for (_, v) in dishes)
SumCrosses(dishes) ==
  IF dishes = <<>> THEN 0 ELSE Head(dishes)[2] + SumCrosses(Tail(dishes))

Max(a, b) == IF a >= b THEN a ELSE b

\* random.choice(pool) with random index r
Choice(pool, r) == pool[(r % Len(pool)) + 1]

RECURSIVE Shuffle(_, _)
\* random.shuffle(pool): the element at position k of the result is picked
\* among the remaining ones by picks[k] (the first one when picks is used up)
Shuffle(pool, picks) ==
  IF pool = <<>> THEN <<>>
  ELSE LET i == IF picks = <<>> THEN 1 ELSE (Head(picks) % Len(pool)) + 1
           rest == IF picks = <<>> THEN <<>> ELSE Tail(picks)
       IN  <<pool[i]>> \o Shuffle(RemoveAt(pool, i), rest)

(***************************************************************************)
(* commands/order.py: generate_regular_order                               *)
(***************************************************************************)
\* DISHES_BY_LEVEL.get(lv, default)
CatalogGet(catalog, lv, default) ==
  IF lv \in DOMAIN catalog THEN catalog[lv] ELSE default

RECURSIVE Opened(_, _)
\* the pools of levels 0..level, concatenated
Opened(catalog, level) ==
  IF level < 0 THEN <<>>
  ELSE Opened(catalog, level - 1) \o CatalogGet(catalog, level, <<>>)

RECURSIVE TakeFrom(_, _)
\* for d in pool: if d not in take and len(take) < 3: take.append(d)
TakeFrom(take, pool) ==
  IF pool = <<>> THEN take
  ELSE IF ~InSeq(Head(pool), take) /\ Len(take) < 3
       THEN TakeFrom(Append(take, Head(pool)), Tail(pool))
       ELSE TakeFrom(take, Tail(pool))

RECURSIVE PadPass(_, _)
\* one pass of the padding for-loop over DISHES_BY_LEVEL[0]
PadPass(take, level0) ==
  IF level0 = <<>> THEN take
  ELSE LET t == IF ~InSeq(Head(level0), take)
                THEN Append(take, Head(level0)) ELSE take
       IN  IF Len(t) = 3 THEN t ELSE PadPass(t, Tail(level0))

\* The result of generate_regular_order(level) with random index r and shuffle
\* picks; diverges when the while loop can never reach 3 dishes
generate_regular_order(catalog, level, r, picks) ==
  LET opened == Opened(catalog, level)
      current_pool == CatalogGet(catalog, level, catalog[0])
      cur == Choice(current_pool, r)
      pool == Shuffle(SelectSeq(opened, LAMBDA d : d # cur), picks)
      take == TakeFrom(<<cur>>, pool)
      padded == IF Len(take) < 3 THEN PadPass(take, catalog[0]) ELSE take
  IN  [diverges |-> Len(padded) < 3,
       dishes |-> SubSeq(padded, 1, IF Len(padded) < 3 THEN Len(padded) ELSE 3)]

\* as order_index, counting from 0
order_index_zero(total_orders) == total_orders

\* _order_index
order_index(total_orders) == total_orders + 1

\* as HalveDishes, with the halves rounded up
HalveDishesUp(dishes) ==
  [i \in DOMAIN dishes |-> <<dishes[i][1], Max(1, (dishes[i][2] + 1) \div 2)>>]

\* [(name, max(1, crosses // 2)) for name, crosses in dishes]
HalveDishes(dishes) ==
  [i \in DOMAIN dishes |-> <<dishes[i][1], Max(1, dishes[i][2] \div 2)>>]

\* as DoubleDishes, with 2 added to the crosses instead of multiplying by 2
DoubleDishesPlus(dishes) ==
  [i \in DOMAIN dishes |-> <<dishes[i][1], dishes[i][2] + 2>>]

\* [(name, crosses * 2) for name, crosses in last_dishes]
DoubleDishes(dishes) ==
  [i \in DOMAIN dishes |-> <<dishes[i][1], dishes[i][2] * 2>>]

(***************************************************************************)
(* data/special_orders.py: check_special_order                             *)
(***************************************************************************)
RECURSIVE CheckFromEager(_, _, _, _, _)
\* as CheckFrom, with random.random() called before the window and the flag
\* are looked at, so that a skipped event consumes a draw too
CheckFromEager(i, k, idx, user_flags, draws) ==
  IF i > Len(SPECIAL_ORDERS) THEN None
  ELSE LET cfg == SPECIAL_ORDERS[i] IN
       IF cfg.min_order_index # 0 /\ idx < cfg.min_order_index
         THEN CheckFromEager(i + 1, k + 1, idx, user_flags, draws)
       ELSE IF cfg.max_order_index # 0 /\ idx > cfg.max_order_index
         THEN CheckFromEager(i + 1, k + 1, idx, user_flags, draws)
       ELSE IF user_flags[cfg.user_flag] # 0
         THEN CheckFromEager(i + 1, k + 1, idx, user_flags, draws)
       ELSE IF draws[k + 1] < cfg.probability
         THEN cfg.tag
       ELSE CheckFromEager(i + 1, k + 1, idx, user_flags, draws)

RECURSIVE CheckFrom(_, _, _, _, _)
\* the loop over SPECIAL_ORDERS from entry i on, k draws consumed so far
CheckFrom(i, k, idx, user_flags, draws) ==
  IF i > Len(SPECIAL_ORDERS) THEN None
  ELSE LET cfg == SPECIAL_ORDERS[i] IN
       IF cfg.min_order_index # 0 /\ idx < cfg.min_order_index
         THEN CheckFrom(i + 1, k, idx, user_flags, draws)
       ELSE IF cfg.max_order_index # 0 /\ idx > cfg.max_order_index
         THEN CheckFrom(i + 1, k, idx, user_flags, draws)
       ELSE IF user_flags[cfg.user_flag] # 0
         THEN CheckFrom(i + 1, k, idx, user_flags, draws)
       ELSE IF draws[k + 1] < cfg.probability
         THEN cfg.tag
       ELSE CheckFrom(i + 1, k + 1, idx, user_flags, draws)

\* the tag of the special order that triggers, or None
check_special_order(idx, user_flags, draws) ==
  CheckFrom(1, 0, idx, user_flags, draws)

(***************************************************************************)
(* database.py                                                             *)
(***************************************************************************)
\* json.dumps / json.loads of an order payload: None <-> null, tuples and
\* lists both become arrays
TagToJson(tag) == IF tag = None THEN JsonNull ELSE tag
TagFromJson(t) == IF t = JsonNull THEN None ELSE t

\* the row INSERT creates: the column defaults of the users table (migrate)
DefaultRow(first_name) ==
  [first_name |-> first_name, level |-> 0, total_orders |-> 0,
   total_crosses |-> 0, has_student_done |-> 0, has_dirty_plate_done |-> 0,
   has_critic_done |-> 0, has_second_chef_done |-> 0, next_order_half |-> 0,
   last_order_json |-> SqlNull, active_order_json |-> SqlNull]

\* as ensure_user, with INSERT OR REPLACE
ensure_user_replace(db, user_id, first_name) ==
  [db EXCEPT ![user_id] =
     DefaultRow(IF first_name = "" THEN "Guest" ELSE first_name)]

\* INSERT OR IGNORE INTO users (user_id, first_name), the name being
\* first_name or "Guest"
ensure_user(db, user_id, first_name) ==
  IF db[user_id] = NoRow
  THEN [db EXCEPT ![user_id] =
          DefaultRow(IF first_name = "" THEN "Guest" ELSE first_name)]
  ELSE db

\* fetch_user: the table after ensure_user, and the row read
fetch_user(db, user_id, first_name) ==
  LET db1 == ensure_user(db, user_id, first_name)
  IN  [db |-> db1, user |-> db1[user_id]]

\* UPDATE ... WHERE user_id=? changes nothing when there is no such row
UpdateRow(db, user_id, newrow) ==
  IF db[user_id] = NoRow THEN db ELSE [db EXCEPT ![user_id] = newrow]

\* as save_active_order, with the payload also written to last_order_json
save_active_order_both(db, user_id, dishes, tag) ==
  UpdateRow(db, user_id,
    [db[user_id] EXCEPT
       !.active_order_json = [dishes |-> dishes, tag |-> TagToJson(tag)],
       !.last_order_json = [dishes |-> dishes, crosses |-> 0,
                            tag |-> TagToJson(tag)]])

\* UPDATE users SET active_order_json=? with the payload {dishes, tag}
save_active_order(db, user_id, dishes, tag) ==
  UpdateRow(db, user_id,
    [db[user_id] EXCEPT
       !.active_order_json = [dishes |-> dishes, tag |-> TagToJson(tag)]])

\* as get_active_order, with a payload whose tag is null taken for no order
get_active_order_tagged(db, user_id) ==
  IF db[user_id] = NoRow \/ db[user_id].active_order_json = SqlNull
  THEN NoOrder
  ELSE LET payload == db[user_id].active_order_json
       IN  IF payload.tag = JsonNull THEN NoOrder
           ELSE [dishes |-> payload.dishes, tag |-> TagFromJson(payload.tag)]

\* as get_active_order, reading last_order_json when active_order_json is NULL
get_active_order_or_last(db, user_id) ==
  IF db[user_id] = NoRow THEN NoOrder
  ELSE LET payload == IF db[user_id].active_order_json # SqlNull
                      THEN db[user_id].active_order_json
                      ELSE db[user_id].last_order_json
       IN  IF payload = SqlNull THEN NoOrder
           ELSE [dishes |-> payload.dishes, tag |-> TagFromJson(payload.tag)]

get_active_order(db, user_id) ==
  IF db[user_id] = NoRow \/ db[user_id].active_order_json = SqlNull
  THEN NoOrder
  ELSE LET payload == db[user_id].active_order_json
       IN  [dishes |-> payload.dishes, tag |-> TagFromJson(payload.tag)]

clear_active_order(db, user_id) ==
  UpdateRow(db, user_id, [db[user_id] EXCEPT !.active_order_json = SqlNull])

save_last_order(db, user_id, dishes, order_crosses, tag) ==
  UpdateRow(db, user_id,
    [db[user_id] EXCEPT
       !.last_order_json = [dishes |-> dishes, crosses |-> order_crosses,
                            tag |-> TagToJson(tag)]])

get_last_order(db, user_id) ==
  IF db[user_id] = NoRow \/ db[user_id].last_order_json = SqlNull
  THEN NoOrder
  ELSE LET payload == db[user_id].last_order_json
       IN  [dishes |-> payload.dishes, crosses |-> payload.crosses,
            tag |-> TagFromJson(payload.tag)]

\* as FlagsAfter, with the flags that do not match the tag written as 0
FlagsAfterReset(row, tag) ==
  [has_critic_done |-> IF tag = "critic" THEN 1 ELSE 0,
   has_student_done |-> IF tag = "student" THEN 1 ELSE 0,
   has_dirty_plate_done |-> IF tag = "dirty_plate" THEN 1 ELSE 0,
   has_second_chef_done |-> IF tag = "second_chef" THEN 1 ELSE 0]

\* lines 328-336: the four flags after the if/elif chain on tag
FlagsAfter(row, tag) ==
  [has_critic_done |-> IF tag = "critic" THEN 1 ELSE row.has_critic_done,
   has_student_done |-> IF tag = "student" THEN 1 ELSE row.has_student_done,
   has_dirty_plate_done |->
     IF tag = "dirty_plate" THEN 1 ELSE row.has_dirty_plate_done,
   has_second_chef_done |->
     IF tag = "second_chef" THEN 1 ELSE row.has_second_chef_done]

\* as KeepLastOrder, with the tag left out of the saved last order
KeepLastOrderNoTag(db, user_id, order_crosses, tag) ==
  LET active_order_data == db[user_id].active_order_json
  IN  IF active_order_data # SqlNull /\ active_order_data.dishes # <<>>
      THEN save_last_order(db, user_id, active_order_data.dishes,
                           order_crosses, None)
      ELSE db

\* as KeepLastOrder, with the accumulated total_crosses stored as the crosses
\* of the last order
KeepLastOrderTotal(db, user_id, order_crosses, tag) ==
  LET active_order_data == db[user_id].active_order_json
  IN  IF active_order_data # SqlNull /\ active_order_data.dishes # <<>>
      THEN save_last_order(db, user_id, active_order_data.dishes,
                           db[user_id].total_crosses + order_crosses, tag)
      ELSE db

\* lines 338-347: the active order of the row, when it has dishes, becomes the
\* last order
KeepLastOrder(db, user_id, order_crosses, tag) ==
  LET active_order_data == db[user_id].active_order_json
  IN  IF active_order_data # SqlNull /\ active_order_data.dishes # <<>>
      THEN save_last_order(db, user_id, active_order_data.dishes,
                           order_crosses, tag)
      ELSE db

\* as LevelAfter, with the cap compared by <= instead of <
LevelAfterCapOff(total, level) ==
  IF total % ORDERS_PER_LEVEL = 0 /\ level <= MAX_LEVEL THEN level + 1 ELSE level

\* lines 349-351: the level after the completion that makes total_orders = total
LevelAfter(total, level) ==
  IF total % ORDERS_PER_LEVEL = 0 /\ level < MAX_LEVEL THEN level + 1 ELSE level

\* as CrossesAfter, with the order's crosses stored instead of added
CrossesAfterOverwrite(row, order_crosses) == order_crosses

\* lines 320-321: the new counters
TotalAfter(row) == row.total_orders + 1
CrossesAfter(row, order_crosses) == row.total_crosses + order_crosses

\* as FinishResult, with the title looked up before the level-up
FinishResultOldTitle(total, prev_level, level, total_crosses) ==
  [total |-> total, level_changed |-> level # prev_level,
   title |-> TitleOf(prev_level), total_crosses |-> total_crosses]

\* lines 371-374: the tuple returned
FinishResult(total, prev_level, level, total_crosses) ==
  [total |-> total, level_changed |-> level # prev_level,
   title |-> TitleOf(level), total_crosses |-> total_crosses]

\* finish_order_and_level on an existing row: the table after the call and
\* the tuple returned
finish_order_and_level(db, user_id, tag, order_crosses) ==
  LET row == db[user_id]
      total == TotalAfter(row)
      total_crosses == CrossesAfter(row, order_crosses)
      flags == FlagsAfter(row, tag)
      db1 == KeepLastOrder(db, user_id, order_crosses, tag)
      prev_level == row.level
      level == LevelAfter(total, row.level)
      db2 == [db1 EXCEPT ![user_id] =
                [db1[user_id] EXCEPT
                   !.total_orders = total,
                   !.total_crosses = total_crosses,
                   !.level = level,
                   !.has_student_done = flags.has_student_done,
                   !.has_dirty_plate_done = flags.has_dirty_plate_done,
                   !.has_critic_done = flags.has_critic_done,
                   !.has_second_chef_done = flags.has_second_chef_done,
                   !.active_order_json = SqlNull]]
  IN  [db |-> db2,
       ret |-> FinishResult(total, prev_level, level, total_crosses)]

(***************************************************************************)
(* Replies of the handlers                                                 *)
(***************************************************************************)
NoFin == [total |-> 0, level_changed |-> FALSE, title |-> "", total_crosses |-> 0]

\* op: which answer was sent; special: the event that triggered on a new-order
\* request; total: the total the text announces; fin: the tuple returned by
\* finish_order_and_level; bonus: the achievement text appended
Reply(op, special, total, fin, bonus) ==
  [op |-> op, special |-> special, total |-> total, fin |-> fin, bonus |-> bonus]

\* as Achievement, with the thresholds compared by >=
AchievementFrom(n_total) ==
  IF n_total >= 200 THEN "TROPHY_DIAMOND"
  ELSE IF n_total >= 100 THEN "TROPHY_GOLD"
  ELSE IF n_total >= 40 THEN "GAME_COMPLETE"
  ELSE ""

\* the achievement text appended to the done reply
Achievement(n_total) ==
  IF n_total = 40 THEN "GAME_COMPLETE"
  ELSE IF n_total = 100 THEN "TROPHY_GOLD"
  ELSE IF n_total = 200 THEN "TROPHY_DIAMOND"
  ELSE ""

\* as UserFlags, with has_student_done read under a key the row does not have
UserFlagsStudentMissing(user) ==
  [has_student_done |-> 0,
   has_critic_done |-> user.has_critic_done,
   has_dirty_plate_done |-> user.has_dirty_plate_done,
   has_second_chef_done |-> user.has_second_chef_done]

\* user.get(flag, 0) for the four flags
UserFlags(user) ==
  [has_student_done |-> user.has_student_done,
   has_critic_done |-> user.has_critic_done,
   has_dirty_plate_done |-> user.has_dirty_plate_done,
   has_second_chef_done |-> user.has_second_chef_done]

\* as LastOrderWasSpecial, with the tag of the last order never looked at
LastOrderWasSpecialNever(db, user_id, user) == FALSE

\* as LastOrderWasSpecial, with only the tag dirty_plate taken for special
LastOrderWasSpecialPlateOnly(db, user_id, user) ==
  /\ user.total_orders > 0
  /\ LET last_order == get_last_order(db, user_id)
     IN  last_order # NoOrder /\ last_order.tag = "dirty_plate"

\* last_order_was_special of _handle_new_order
LastOrderWasSpecial(db, user_id, user) ==
  /\ user.total_orders > 0
  /\ LET last_order == get_last_order(db, user_id)
     IN  last_order # NoOrder /\ last_order.tag # None /\ last_order.tag # ""

\* special_result of _handle_new_order (lines 146-156), for every sequence of
\* draws the request can make
SpecialResults(db, user_id, user) ==
  IF ~LastOrderWasSpecial(db, user_id, user)
  THEN LET idx == order_index(user.total_orders)
           user_flags == UserFlags(user)
       IN  {check_special_order(idx, user_flags, draws) : draws \in DrawSeqs}
  ELSE {None}

\* as MarkSecondChef, with has_second_chef_done left as it was
MarkSecondChefNoFlag(db, user_id) ==
  UpdateRow(db, user_id, [db[user_id] EXCEPT !.next_order_half = 1])

\* lines 180-184: UPDATE users SET has_second_chef_done=1, next_order_half=1
MarkSecondChef(db, user_id) ==
  UpdateRow(db, user_id,
    [db[user_id] EXCEPT !.has_second_chef_done = 1, !.next_order_half = 1])

\* as ClearNextOrderHalf, with the UPDATE left out
ClearNextOrderHalfSkipped(db, user_id) == db

\* lines 207-210: UPDATE users SET next_order_half=0
ClearNextOrderHalf(db, user_id) ==
  UpdateRow(db, user_id, [db[user_id] EXCEPT !.next_order_half = 0])

\* the gap history after an untagged regular order was created
GapCreated(g) == IF g = "triggered" THEN "created" ELSE g

(***************************************************************************)
(* commands/order.py: _handle_new_order                                    *)
(***************************************************************************)
\* as RegularPath, with the order saved under the tag of the event that
\* triggered
RegularPathTagged(db, user_id, user, special, r, picks) ==
  LET gen == generate_regular_order(DISHES_BY_LEVEL, user.level, r, picks)
      half == user.next_order_half # 0
      dishes == IF half THEN HalveDishes(gen.dishes) ELSE gen.dishes
      db1 == IF half THEN ClearNextOrderHalf(db, user_id) ELSE db
  IN  /\ ~gen.diverges
      /\ users' = save_active_order(db1, user_id, dishes, special)
      /\ reply' = Reply("new", special, SumCrosses(dishes), NoFin, "")
      /\ gap' = IF special # None THEN "triggered" ELSE GapCreated(gap)

\* the regular path (lines 198-223): a regular order, halved when
\* next_order_half is set, saved without tag
RegularPath(db, user_id, user, special, r, picks) ==
  LET gen == generate_regular_order(DISHES_BY_LEVEL, user.level, r, picks)
      half == user.next_order_half # 0
      dishes == IF half THEN HalveDishes(gen.dishes) ELSE gen.dishes
      db1 == IF half THEN ClearNextOrderHalf(db, user_id) ELSE db
  IN  /\ ~gen.diverges
      /\ users' = save_active_order(db1, user_id, dishes, None)
      /\ reply' = Reply("new", special, SumCrosses(dishes), NoFin, "")
      /\ gap' = IF special # None THEN "triggered" ELSE GapCreated(gap)

NewOrder(user_id, first_name) ==
  LET f == fetch_user(users, user_id, first_name)
      db == f.db
      user == f.user
      active == get_active_order(db, user_id)
  IN
  /\ UNCHANGED handlers
  /\ UNCHANGED <<DISHES_BY_LEVEL, nDone, sumDone, prevDoneTag, lastDoneTag, result>>
  /\ fault' = "none"
  /\ IF active # NoOrder
     THEN /\ users' = db
          /\ reply' = Reply("already", None, 0, NoFin, "")
          /\ UNCHANGED <<gap, nEvent>>
     ELSE \E special_result \in SpecialResults(db, user_id, user) :
          LET order_type ==
                IF special_result = None THEN "none"
                ELSE ConfigOf(special_result).type
              last_order == get_last_order(db, user_id)
          IN
          CASE order_type = "double_previous" /\ last_order # NoOrder ->
                 /\ users' = save_active_order(db, user_id,
                                DoubleDishes(last_order.dishes), special_result)
                 /\ reply' = Reply("new", special_result,
                                   last_order.crosses * 2, NoFin, "")
                 /\ gap' = "triggered"
                 /\ nEvent' = [nEvent EXCEPT ![special_result] = @ + 1]
            [] order_type = "half_next" ->
                 /\ users' = MarkSecondChef(db, user_id)
                 /\ reply' = Reply("new", special_result, 0, NoFin, "")
                 /\ gap' = "triggered"
                 /\ nEvent' = [nEvent EXCEPT ![special_result] = @ + 1]
            [] order_type = "regular" ->
                 /\ users' = save_active_order(db, user_id,
                                <<ConfigOf(special_result).dish>>, special_result)
                 /\ reply' = Reply("new", special_result, 0, NoFin, "")
                 /\ gap' = "triggered"
                 /\ nEvent' = [nEvent EXCEPT ![special_result] = @ + 1]
            [] OTHER ->
                 /\ UNCHANGED nEvent
                 /\ \E r \in PickValues, picks \in PickSeqs :
                       RegularPath(db, user_id, user, special_result, r, picks)

(***************************************************************************)
(* commands/order.py: _handle_my_order                                     *)
(***************************************************************************)
MyOrder(user_id, first_name) ==
  LET f == fetch_user(users, user_id, first_name)
      active == get_active_order(f.db, user_id)
  IN
  /\ users' = f.db
  /\ reply' = IF active = NoOrder
              THEN Reply("no_active", None, 0, NoFin, "")
              ELSE Reply("show", None, SumCrosses(active.dishes), NoFin, "")
  /\ UNCHANGED <<nEvent, handlers>>
  /\ UNCHANGED <<DISHES_BY_LEVEL, nDone, sumDone, prevDoneTag, lastDoneTag, gap,
                 result>>
  /\ fault' = "none"

(***************************************************************************)
(* commands/order.py: _handle_done                                         *)
(***************************************************************************)
Done(user_id, first_name) ==
  LET f == fetch_user(users, user_id, first_name)
      active == get_active_order(f.db, user_id)
  IN
  /\ UNCHANGED <<nEvent, handlers>>
  /\ UNCHANGED <<DISHES_BY_LEVEL, result>>
  /\ fault' = "none"
  /\ IF active = NoOrder
     THEN /\ users' = f.db
          /\ reply' = Reply("no_active", None, 0, NoFin, "")
          /\ UNCHANGED <<nDone, sumDone, prevDoneTag, lastDoneTag, gap>>
     ELSE LET order_crosses == SumCrosses(active.dishes)
              fin == finish_order_and_level(f.db, user_id, active.tag, order_crosses)
          IN  /\ users' = clear_active_order(fin.db, user_id)
              /\ reply' = Reply("done", None, 0, fin.ret, Achievement(fin.ret.total))
              /\ nDone' = nDone + 1
              /\ sumDone' = sumDone + order_crosses
              /\ prevDoneTag' = lastDoneTag
              /\ lastDoneTag' = active.tag
              /\ gap' = IF active.tag = None /\ gap = "created"
                        THEN "completed" ELSE gap

(***************************************************************************)
(* The game of one player                                                  *)
(***************************************************************************)
UserIds == {1}
FirstNames == {"Ann"}

Init ==
  /\ users = [u \in UserIds |-> NoRow]
  /\ DISHES_BY_LEVEL = GameCatalog
  /\ reply = Reply("none", None, 0, NoFin, "")
  /\ nDone = 0
  /\ sumDone = 0
  /\ prevDoneTag = None
  /\ lastDoneTag = None
  /\ gap = "never"
  /\ result = NoResult
  /\ fault = "none"
  /\ nEvent = [t \in EventTags |-> 0]
  /\ handlers = [h \in Handlers |-> IdleHandler]

\* a done request is taken while fewer than MaxOrders orders are completed
CanComplete(user_id) ==
  IF users[user_id] = NoRow THEN TRUE
  ELSE users[user_id].total_orders < MaxOrders

\* the three requests of a player
NewOrderRequest ==
  \E user_id \in DOMAIN users, first_name \in FirstNames :
     NewOrder(user_id, first_name)

MyOrderRequest ==
  \E user_id \in DOMAIN users, first_name \in FirstNames :
     MyOrder(user_id, first_name)

DoneRequest ==
  \E user_id \in DOMAIN users, first_name \in FirstNames :
     CanComplete(user_id) /\ Done(user_id, first_name)

Next == NewOrderRequest \/ MyOrderRequest \/ DoneRequest

Spec == Init /\ [][Next]_vars

(***************************************************************************)
(* The game on a storage that can reject the writes of a done request      *)
(***************************************************************************)
\* the writes finish_order_and_level makes
FinishWrites == {"save_last_order", "update"}

\* finish_order_and_level when the storage rejects the write `failing` (none
\* when failing = "none"): the table after the call, whether the call raised,
\* and the tuple returned
finish_order_and_level_failing(db, user_id, tag, order_crosses, failing) ==
  LET fin == finish_order_and_level(db, user_id, tag, order_crosses)
  IN  CASE failing = "save_last_order" ->
             \* lines 341-347: the error of save_last_order is caught and
             \* logged, and the call goes on to the UPDATE of line 353
             [db |-> [fin.db EXCEPT ![user_id].last_order_json =
                                       db[user_id].last_order_json],
              raised |-> FALSE, ret |-> fin.ret]
        [] failing = "update" ->
             \* lines 353-369 raise after save_last_order has committed
             [db |-> KeepLastOrder(db, user_id, order_crosses, tag),
              raised |-> TRUE, ret |-> NoFin]
        [] OTHER -> [db |-> fin.db, raised |-> FALSE, ret |-> fin.ret]

\* _handle_done when the storage rejects the write `failing`
FaultyDone(user_id, first_name, failing) ==
  LET f == fetch_user(users, user_id, first_name)
      active == get_active_order(f.db, user_id)
  IN
  /\ UNCHANGED <<nEvent, handlers>>
  /\ UNCHANGED <<DISHES_BY_LEVEL, result>>
  /\ IF active = NoOrder
     THEN /\ failing = "none"
          /\ users' = f.db
          /\ reply' = Reply("no_active", None, 0, NoFin, "")
          /\ fault' = "none"
          /\ UNCHANGED <<nDone, sumDone, prevDoneTag, lastDoneTag, gap>>
     ELSE LET order_crosses == SumCrosses(active.dishes)
              fin == finish_order_and_level_failing(f.db, user_id, active.tag,
                                                    order_crosses, failing)
          IN  /\ fault' = failing
              /\ IF fin.raised
                 THEN \* lines 386-392: the generic error answer
                      /\ users' = fin.db
                      /\ reply' = Reply("error", None, 0, NoFin, "")
                      /\ UNCHANGED <<nDone, sumDone, prevDoneTag, lastDoneTag, gap>>
                 ELSE /\ users' = clear_active_order(fin.db, user_id)
                      /\ reply' = Reply("done", None, 0, fin.ret,
                                        Achievement(fin.ret.total))
                      /\ nDone' = nDone + 1
                      /\ sumDone' = sumDone + order_crosses
                      /\ prevDoneTag' = lastDoneTag
                      /\ lastDoneTag' = active.tag
                      /\ gap' = IF active.tag = None /\ gap = "created"
                                THEN "completed" ELSE gap

\* a done request is taken while fewer than MaxFaultyOrders orders are completed
CanCompleteFaulty(user_id) ==
  IF users[user_id] = NoRow THEN TRUE
  ELSE users[user_id].total_orders < MaxFaultyOrders

FaultyDoneRequest ==
  \E user_id \in DOMAIN users, first_name \in FirstNames,
     failing \in {"none"} \cup FinishWrites :
     CanCompleteFaulty(user_id) /\ FaultyDone(user_id, first_name, failing)

\* _handle_new_order when the storage rejects the write of save_active_order
\* (database.py 164-173 raise, order.py 224-232 answer with the generic
\* error): the request is one that reaches a save_active_order call, and the
\* writes committed before that call stay
FaultyNewOrder(user_id, first_name) ==
  LET f == fetch_user(users, user_id, first_name)
      db == f.db
      user == f.user
      active == get_active_order(db, user_id)
  IN
  /\ UNCHANGED <<nEvent, handlers>>
  /\ UNCHANGED <<DISHES_BY_LEVEL, nDone, sumDone, prevDoneTag, lastDoneTag,
                 gap, result>>
  /\ active = NoOrder
  /\ fault' = "save_active_order"
  /\ reply' = Reply("error", None, 0, NoFin, "")
  /\ \E special_result \in SpecialResults(db, user_id, user) :
       LET order_type ==
             IF special_result = None THEN "none"
             ELSE ConfigOf(special_result).type
           last_order == get_last_order(db, user_id)
       IN
       CASE order_type = "double_previous" /\ last_order # NoOrder ->
              users' = db
         [] order_type = "half_next" ->
              \* lines 178-188 return without a call of save_active_order
              FALSE
         [] order_type = "regular" ->
              users' = db
         [] OTHER ->
              \E r \in PickValues, picks \in PickSeqs :
                 LET gen == generate_regular_order(DISHES_BY_LEVEL, user.level,
                                                   r, picks)
                 IN  /\ ~gen.diverges
                     /\ users' = IF user.next_order_half # 0
                                 THEN ClearNextOrderHalf(db, user_id) ELSE db

FaultyNewOrderRequest ==
  \E user_id \in DOMAIN users, first_name \in FirstNames :
     FaultyNewOrder(user_id, first_name)

NextFaulty ==
  NewOrderRequest \/ MyOrderRequest \/ FaultyDoneRequest \/ FaultyNewOrderRequest

SpecFaulty == Init /\ [][NextFaulty]_vars

(***************************************************************************)
(* Done requests of one user in flight at the same time.  Each handler has *)
(* its own connection (get_db) and gives way at every await: after the     *)
(* reads of _handle_done, after the SELECT of finish_order_and_level,      *)
(* after its writes, and after clear_active_order.                         *)
(***************************************************************************)
\* a done request that finds an active order is taken while fewer than
\* MaxRaceOrders such requests were taken before
CanCompleteRace ==
  nDone + Cardinality({h \in Handlers : handlers[h].pc # "idle"}) < MaxRaceOrders

\* database.py 320-369: the writes of finish_order_and_level, computed from
\* the row its SELECT returned, and the tuple returned
finish_order_and_level_write(db, user_id, row, tag, order_crosses) ==
  LET total == TotalAfter(row)
      total_crosses == CrossesAfter(row, order_crosses)
      flags == FlagsAfter(row, tag)
      active_order_data == row.active_order_json
      db1 == IF active_order_data # SqlNull /\ active_order_data.dishes # <<>>
             THEN save_last_order(db, user_id, active_order_data.dishes,
                                  order_crosses, tag)
             ELSE db
      prev_level == row.level
      level == LevelAfter(total, row.level)
      db2 == UpdateRow(db1, user_id,
                [db1[user_id] EXCEPT
                   !.total_orders = total,
                   !.total_crosses = total_crosses,
                   !.level = level,
                   !.has_student_done = flags.has_student_done,
                   !.has_dirty_plate_done = flags.has_dirty_plate_done,
                   !.has_critic_done = flags.has_critic_done,
                   !.has_second_chef_done = flags.has_second_chef_done,
                   !.active_order_json = SqlNull])
  IN  [db |-> db2,
       ret |-> FinishResult(total, prev_level, level, total_crosses)]

\* order.py 347-356: fetch_user and get_active_order; without active order the
\* request is answered at once
DoneRead(h, user_id, first_name) ==
  LET f == fetch_user(users, user_id, first_name)
      active == get_active_order(f.db, user_id)
  IN
  /\ handlers[h].pc = "idle"
  /\ CanCompleteRace
  /\ users' = f.db
  /\ fault' = "none"
  /\ IF active = NoOrder
     THEN /\ reply' = Reply("no_active", None, 0, NoFin, "")
          /\ UNCHANGED handlers
     ELSE /\ handlers' = [handlers EXCEPT ![h] =
                            [pc |-> "read", user_id |-> user_id,
                             user |-> f.user, active |-> active]]
          /\ UNCHANGED reply
  /\ UNCHANGED <<DISHES_BY_LEVEL, nDone, sumDone, prevDoneTag, lastDoneTag, gap,
                 result, nEvent>>

\* database.py 309-318: the SELECT of finish_order_and_level
DoneSelect ==
  \E h \in Handlers :
      /\ handlers[h].pc = "read"
      /\ handlers' = [handlers EXCEPT ![h] =
                        [pc |-> "selected", user_id |-> handlers[h].user_id,
                         user |-> handlers[h].user, active |-> handlers[h].active,
                         row |-> users[handlers[h].user_id]]]
      /\ UNCHANGED <<users, DISHES_BY_LEVEL, reply, nDone, sumDone, prevDoneTag,
                     lastDoneTag, gap, result, fault, nEvent>>

\* database.py 320-374: the writes of finish_order_and_level and its return
DoneWrite ==
  \E h \in Handlers :
      LET me == handlers[h]
          fin == finish_order_and_level_write(users, me.user_id, me.row,
                    me.active.tag, SumCrosses(me.active.dishes))
      IN
      /\ me.pc = "selected"
      /\ users' = fin.db
      /\ handlers' = [handlers EXCEPT ![h] =
                        [pc |-> "written", user_id |-> me.user_id,
                         user |-> me.user, active |-> me.active,
                         ret |-> fin.ret]]
      /\ UNCHANGED <<DISHES_BY_LEVEL, reply, nDone, sumDone, prevDoneTag,
                     lastDoneTag, gap, result, fault, nEvent>>

\* order.py 366-384: clear_active_order and the answer
DoneClear ==
  \E h \in Handlers :
      LET me == handlers[h]
      IN
      /\ me.pc = "written"
      /\ users' = clear_active_order(users, me.user_id)
      /\ reply' = Reply("done", None, 0, me.ret, Achievement(me.ret.total))
      /\ handlers' = [handlers EXCEPT ![h] = IdleHandler]
      /\ nDone' = nDone + 1
      /\ sumDone' = sumDone + SumCrosses(me.active.dishes)
      /\ prevDoneTag' = lastDoneTag
      /\ lastDoneTag' = me.active.tag
      /\ gap' = IF me.active.tag = None /\ gap = "created" THEN "completed" ELSE gap
      /\ UNCHANGED <<DISHES_BY_LEVEL, result, fault, nEvent>>

DoneReadStep ==
  \E h \in Handlers, user_id \in DOMAIN users, first_name \in FirstNames :
     DoneRead(h, user_id, first_name)

NextRace ==
  NewOrderRequest \/ DoneReadStep \/ DoneSelect \/ DoneWrite \/ DoneClear

SpecRace == Init /\ [][NextRace]_vars

(***************************************************************************)
(* database.py and commands/reset.py called on a table of two users        *)
(***************************************************************************)
DbUserIds == {1, 2}
DbNames == {"Ann", ""}

\* the orders the calls save and complete: a regular one and the student's
DbOrders ==
  { [dishes |-> << <<"tea", 1>>, <<"toast", 5>>, <<"salad", 8>> >>, tag |-> None],
    [dishes |-> << <<"noodles", 100>> >>, tag |-> "student"] }

\* as finish_order_and_level_call, with a missing row inserted instead of
\* reported
finish_order_and_level_upsert(db, user_id, tag, order_crosses) ==
  LET db0 == IF db[user_id] = NoRow
             THEN [db EXCEPT ![user_id] = DefaultRow("Guest")] ELSE db
      fin == finish_order_and_level(db0, user_id, tag, order_crosses)
  IN  [db |-> fin.db, raised |-> "none", ret |-> fin.ret]

\* finish_order_and_level on any user id: lines 316-318 raise ValueError when
\* the SELECT finds no row, before any write
finish_order_and_level_call(db, user_id, tag, order_crosses) ==
  IF db[user_id] = NoRow
  THEN [db |-> db, raised |-> "ValueError", ret |-> NoFin]
  ELSE LET fin == finish_order_and_level(db, user_id, tag, order_crosses)
       IN  [db |-> fin.db, raised |-> "none", ret |-> fin.ret]

\* as cmd_reset, with the counters of every row set to 0 instead of the rows
\* deleted
cmd_reset_counters(db, admin) ==
  IF ~admin THEN db
  ELSE [u \in DOMAIN db |->
          IF db[u] = NoRow THEN NoRow
          ELSE [db[u] EXCEPT !.level = 0, !.total_orders = 0,
                             !.total_crosses = 0]]

\* cmd_reset: DELETE FROM users when the sender is an administrator
cmd_reset(db, admin) ==
  IF ~admin THEN db ELSE [u \in DOMAIN db |-> NoRow]

InitDb ==
  /\ users = [u \in DbUserIds |-> NoRow]
  /\ DISHES_BY_LEVEL = GameCatalog
  /\ reply = Reply("none", None, 0, NoFin, "")
  /\ nDone = 0
  /\ sumDone = 0
  /\ prevDoneTag = None
  /\ lastDoneTag = None
  /\ gap = "never"
  /\ result = NoResult
  /\ fault = "none"
  /\ nEvent = [t \in EventTags |-> 0]
  /\ handlers = [h \in Handlers |-> IdleHandler]

EnsureUserCall ==
  /\ \E user_id \in DOMAIN users, first_name \in DbNames :
        /\ users' = ensure_user(users, user_id, first_name)
        /\ result' = [fn |-> "ensure_user", user_id |-> user_id,
                      first_name |-> first_name]
  /\ UNCHANGED <<nEvent, handlers>>
  /\ UNCHANGED <<DISHES_BY_LEVEL, reply, nDone, sumDone, prevDoneTag,
                 lastDoneTag, gap, fault>>

FetchUserCall ==
  /\ \E user_id \in DOMAIN users, first_name \in DbNames :
        LET f == fetch_user(users, user_id, first_name)
        IN  /\ users' = f.db
            /\ result' = [fn |-> "fetch_user", user_id |-> user_id,
                          user |-> f.user]
  /\ UNCHANGED <<nEvent, handlers>>
  /\ UNCHANGED <<DISHES_BY_LEVEL, reply, nDone, sumDone, prevDoneTag,
                 lastDoneTag, gap, fault>>

SaveActiveOrderCall ==
  /\ \E user_id \in DOMAIN users, order \in DbOrders :
        /\ users' = save_active_order(users, user_id, order.dishes, order.tag)
        /\ result' = [fn |-> "save_active_order", user_id |-> user_id]
  /\ UNCHANGED <<nEvent, handlers>>
  /\ UNCHANGED <<DISHES_BY_LEVEL, reply, nDone, sumDone, prevDoneTag,
                 lastDoneTag, gap, fault>>

\* finish_order_and_level(db, user_id, tag, order_crosses), at most
\* MaxDbOrders times with success
FinishCall ==
  /\ nDone < MaxDbOrders
  /\ \E user_id \in DOMAIN users, order \in DbOrders :
        LET fin == finish_order_and_level_call(users, user_id, order.tag,
                                               SumCrosses(order.dishes))
        IN  /\ users' = fin.db
            /\ result' = [fn |-> "finish_order_and_level", user_id |-> user_id,
                          raised |-> fin.raised, ret |-> fin.ret]
            /\ nDone' = IF fin.raised = "none" THEN nDone + 1 ELSE nDone
  /\ UNCHANGED <<nEvent, handlers>>
  /\ UNCHANGED <<DISHES_BY_LEVEL, reply, sumDone, prevDoneTag, lastDoneTag,
                 gap, fault>>

ResetCall ==
  /\ \E admin \in BOOLEAN :
        /\ users' = cmd_reset(users, admin)
        /\ result' = [fn |-> "cmd_reset", admin |-> admin]
  /\ UNCHANGED <<nEvent, handlers>>
  /\ UNCHANGED <<DISHES_BY_LEVEL, reply, nDone, sumDone, prevDoneTag,
                 lastDoneTag, gap, fault>>

NextDb ==
  EnsureUserCall \/ FetchUserCall \/ SaveActiveOrderCall \/ FinishCall
    \/ ResetCall

SpecDb == InitDb /\ [][NextDb]_vars

(***************************************************************************)
(* check_special_order called on its own                                   *)
(***************************************************************************)
\* order indices around the ends of the windows (3, 20, 40)
IdxValues == {1, 2, 3, 19, 20, 40, 41}

\* the user_flags dicts _handle_new_order builds
UserFlagDicts ==
  [{SPECIAL_ORDERS[i].user_flag : i \in DOMAIN SPECIAL_ORDERS} -> {0, 1}]

\* one call check_special_order(order_index, user_flags), the random source
\* returning draws; the function keeps no state, so one call per run covers it
CheckCall ==
  /\ result = NoResult
  /\ \E idx \in IdxValues, user_flags \in UserFlagDicts, draws \in DrawSeqs :
        result' = [fn |-> "check_special_order", idx |-> idx,
                   user_flags |-> user_flags, draws |-> draws,
                   tag |-> check_special_order(idx, user_flags, draws)]
  /\ UNCHANGED <<nEvent, handlers>>
  /\ UNCHANGED <<users, DISHES_BY_LEVEL, reply, nDone, sumDone, prevDoneTag,
                 lastDoneTag, gap, fault>>

SpecCheck == Init /\ [][CheckCall]_vars

(***************************************************************************)
(* generate_regular_order and the halving called on drawn catalogs         *)
(***************************************************************************)
\* crosses of the level-0 dishes: the value 1, an even and an odd value
CrossValues == {1, 2, 5}

\* level-0 pools of three differently named dishes
Level0Pools ==
  { << <<"tea", a>>, <<"toast", b>>, <<"salad", c>> >> :
       a \in CrossValues, b \in CrossValues, c \in CrossValues }

\* pools of a level above 0: a dish of its own, a dish that has the name of a
\* level-0 dish, two dishes
UpperPools ==
  { << <<"soup", 2>> >>, << <<"tea", 2>> >>, << <<"soup", 5>>, <<"stew", 1>> >> }

\* catalogs in which every level has at least one dish and level 0 three
\* differently named ones, with pools up to level 3 or up to level 4
Catalogs ==
  UNION { { [lv \in 0..top |-> IF lv = 0 THEN p0 ELSE up[lv]] :
              p0 \in Level0Pools, up \in [1..top -> UpperPools] } :
          top \in {3, 4} }

\* the indices random.shuffle draws for the first two positions
ShufflePicks == [1..2 -> 0..2]

InitGen ==
  /\ users = [u \in UserIds |-> NoRow]
  /\ DISHES_BY_LEVEL \in Catalogs
  /\ reply = Reply("none", None, 0, NoFin, "")
  /\ nDone = 0
  /\ sumDone = 0
  /\ prevDoneTag = None
  /\ lastDoneTag = None
  /\ gap = "never"
  /\ result = NoResult
  /\ fault = "none"
  /\ nEvent = [t \in EventTags |-> 0]
  /\ handlers = [h \in Handlers |-> IdleHandler]

\* one call generate_regular_order(level); the function keeps no state.
\* returns is FALSE when the call never leaves the while loop of lines 73-78,
\* and dishes is then the list the loop is stuck with
GenerateCall ==
  /\ result = NoResult
  /\ \E level \in DOMAIN LEVELS, r \in 0..1, picks \in ShufflePicks :
        LET gen == generate_regular_order(DISHES_BY_LEVEL, level, r, picks)
        IN  result' = [fn |-> "generate_regular_order", level |-> level,
                       returns |-> ~gen.diverges, dishes |-> gen.dishes]
  /\ UNCHANGED <<nEvent, handlers>>
  /\ UNCHANGED <<users, DISHES_BY_LEVEL, reply, nDone, sumDone, prevDoneTag,
                 lastDoneTag, gap, fault>>

\* lines 200-206 with next_order_half set: a regular order and its halving
HalfOrderCall ==
  /\ result = NoResult
  /\ \E level \in DOMAIN LEVELS, r \in 0..1, picks \in ShufflePicks :
        LET gen == generate_regular_order(DISHES_BY_LEVEL, level, r, picks)
        IN  /\ ~gen.diverges
            /\ result' = [fn |-> "half_order", level |-> level,
                          dishes |-> gen.dishes,
                          halved |-> HalveDishes(gen.dishes)]
  /\ UNCHANGED <<nEvent, handlers>>
  /\ UNCHANGED <<users, DISHES_BY_LEVEL, reply, nDone, sumDone, prevDoneTag,
                 lastDoneTag, gap, fault>>

NextGen == GenerateCall \/ HalfOrderCall

SpecGen == InitGen /\ [][NextGen]_vars

\* level-0 pools of one, two and three dishes
SmallLevel0Pools ==
  { << <<"tea", a>> >> : a \in CrossValues }
    \cup { << <<"tea", a>>, <<"toast", b>> >> : a \in CrossValues, b \in CrossValues }
    \cup { << <<"tea", 1>>, <<"toast", 5>>, <<"salad", 2>> >> }

\* catalogs in which every level has at least one dish, with pools up to
\* level 4
SmallCatalogs ==
  { [lv \in 0..4 |-> IF lv = 0 THEN p0 ELSE up[lv]] :
       p0 \in SmallLevel0Pools, up \in [1..4 -> UpperPools] }

InitGenSmall ==
  /\ users = [u \in UserIds |-> NoRow]
  /\ DISHES_BY_LEVEL \in SmallCatalogs
  /\ reply = Reply("none", None, 0, NoFin, "")
  /\ nDone = 0
  /\ sumDone = 0
  /\ prevDoneTag = None
  /\ lastDoneTag = None
  /\ gap = "never"
  /\ result = NoResult
  /\ fault = "none"
  /\ nEvent = [t \in EventTags |-> 0]
  /\ handlers = [h \in Handlers |-> IdleHandler]

SpecGenSmall == InitGenSmall /\ [][GenerateCall]_vars

(***************************************************************************)
(* Properties                                                              *)
(***************************************************************************)
HasRow(u) == users[u] # NoRow

\* a step that completes an order
Completes == nDone' = nDone + 1

Min(a, b) == IF a <= b THEN a ELSE b

C2_LevelLockStep ==
  /\ [](\A u \in DOMAIN users :
          HasRow(u) => users[u].level = Min(users[u].total_orders \div 10, 4))
  /\ [][\A u \in DOMAIN users :
          HasRow(u) => users'[u] # NoRow /\ users'[u].level >= users[u].level]_vars

\* the cap is reached and passed: 50 orders completed at level 4
C2_Witness ==
  \E u \in DOMAIN users :
     HasRow(u) /\ users[u].total_orders = 50 /\ users[u].level = 4

\* C3: a completion raises level by exactly 1 and returns leveledUp = true with
\* the title of the new level when the new total_orders is a multiple of
\* ORDERS_PER_LEVEL and the old level is below MAX_LEVEL; otherwise level is
\* unchanged, leveledUp is false and the title is that of the unchanged level.
C3_LevelUpExactlyOne ==
  [][Completes =>
       \A u \in DOMAIN users :
          (HasRow(u) /\ users'[u].total_orders # users[u].total_orders) =>
             IF users'[u].total_orders % ORDERS_PER_LEVEL = 0
                /\ users[u].level < MAX_LEVEL
             THEN /\ users'[u].level = users[u].level + 1
                  /\ reply'.fin.level_changed = TRUE
                  /\ reply'.fin.title = LEVELS[users[u].level + 1]
             ELSE /\ users'[u].level = users[u].level
                  /\ reply'.fin.level_changed = FALSE
                  /\ reply'.fin.title = LEVELS[users[u].level]]_vars

\* the completion of order 40 has raised the level to MAX_LEVEL
C3_Witness ==
  /\ reply.op = "done"
  /\ reply.fin.level_changed
  /\ reply.fin.total = 40
  /\ \E u \in DOMAIN users : HasRow(u) /\ users[u].level = MAX_LEVEL

\* the names of the four one-time flags
FlagNames == {SPECIAL_ORDERS[i].user_flag : i \in DOMAIN SPECIAL_ORDERS}

\* C4: each successful done request increases total_orders by exactly 1 and
\* total_crosses by exactly the sum of the crosses of the dishes of the active
\* order, and returns these new totals; so in every reachable state
\* total_orders is the number of completed orders and total_crosses the sum of
\* the totals of all completed orders.
C4_CountersAccrue ==
  /\ [][Completes =>
          \A u \in DOMAIN users :
             (HasRow(u) /\ users[u].active_order_json # SqlNull) =>
                /\ users'[u].total_orders = users[u].total_orders + 1
                /\ users'[u].total_crosses =
                     users[u].total_crosses
                       + SumCrosses(users[u].active_order_json.dishes)
                /\ reply'.fin.total = users'[u].total_orders
                /\ reply'.fin.total_crosses = users'[u].total_crosses]_vars
  /\ [](\A u \in DOMAIN users :
          HasRow(u) => /\ users[u].total_orders = nDone
                       /\ users[u].total_crosses = sumDone)

\* a student order (100 crosses) and other orders have been completed
C4_Witness ==
  /\ reply.op = "done"
  /\ nDone >= 4
  /\ \E u \in DOMAIN users :
        HasRow(u) /\ users[u].has_student_done = 1
                  /\ users[u].total_crosses = reply.fin.total_crosses
                  /\ users[u].total_crosses > 100

Generates == reply'.op = "new"

\* C6: once the one-time flag of an event is true, no later new-order request
\* of the user triggers that event, whatever the draws are.
C6_FlaggedNeverTriggers ==
  [][Generates =>
       \A u \in DOMAIN users : \A i \in DOMAIN SPECIAL_ORDERS :
          (HasRow(u) /\ users[u][SPECIAL_ORDERS[i].user_flag] = 1) =>
             /\ reply'.special # SPECIAL_ORDERS[i].tag
             /\ (users[u].active_order_json = SqlNull
                 /\ users'[u].active_order_json # SqlNull)
                  => users'[u].active_order_json.tag # SPECIAL_ORDERS[i].tag]_vars

\* dirty_plate is flagged and in its window, and a draw low enough for it
\* (below 12 < 15) triggered the student event instead
C6_Witness ==
  /\ reply.op = "new"
  /\ reply.special = "student"
  /\ \E u \in DOMAIN users :
        /\ HasRow(u)
        /\ users[u].has_dirty_plate_done = 1
        /\ users[u].total_orders + 1 <= 40

\* C7: through new-order, view and done requests none of the four one-time
\* flags goes from true back to false.
C7_FlagsNeverRevert ==
  [][\A u \in DOMAIN users : \A f \in FlagNames :
        (HasRow(u) /\ users[u][f] = 1) =>
           (users'[u] # NoRow /\ users'[u][f] = 1)]_vars

\* all four flags are set and the user went on completing orders
C7_Witness ==
  \E u \in DOMAIN users :
     /\ HasRow(u)
     /\ \A f \in FlagNames : users[u][f] = 1
     /\ users[u].total_orders > 40
     /\ reply.op = "done"

\* the row a request sees: the stored row, or the defaults it creates
RowSeen(u) == IF HasRow(u) THEN users[u] ELSE DefaultRow(users'[u].first_name)

\* a new-order request was handled
NewOrderStep == reply'.op \in {"new", "already"}

\* the event whose flag is f
TagOfFlag(f) ==
  SPECIAL_ORDERS[CHOOSE i \in DOMAIN SPECIAL_ORDERS :
                   SPECIAL_ORDERS[i].user_flag = f].tag

\* C8 (as stated): a new-order request changes none of level, total_orders,
\* total_crosses, the four one-time flags and last_order; the one-time flags
\* change only when an order with the matching tag is completed.
C8_NewOrderKeepsProgress ==
  /\ [][NewOrderStep =>
          \A u \in DOMAIN users :
             /\ users'[u].level = RowSeen(u).level
             /\ users'[u].total_orders = RowSeen(u).total_orders
             /\ users'[u].total_crosses = RowSeen(u).total_crosses
             /\ users'[u].last_order_json = RowSeen(u).last_order_json
             /\ \A f \in FlagNames : users'[u][f] = RowSeen(u)[f]]_vars
  /\ [][\A u \in DOMAIN users : \A f \in FlagNames :
          (HasRow(u) /\ users'[u][f] # users[u][f]) =>
             (Completes /\ lastDoneTag' = TagOfFlag(f))]_vars

\* C8 (amended): a new-order request changes none of level, total_orders,
\* total_crosses, has_student_done, has_critic_done, has_dirty_plate_done and
\* last_order; it sets has_second_chef_done, together with next_order_half,
\* exactly when the second-chef event triggers on it; the other three flags
\* change only when an order with the matching tag is completed.
C8_NewOrderKeepsProgressButChef ==
  /\ [][NewOrderStep =>
          \A u \in DOMAIN users :
             /\ users'[u].level = RowSeen(u).level
             /\ users'[u].total_orders = RowSeen(u).total_orders
             /\ users'[u].total_crosses = RowSeen(u).total_crosses
             /\ users'[u].last_order_json = RowSeen(u).last_order_json
             /\ \A f \in FlagNames \ {"has_second_chef_done"} :
                   users'[u][f] = RowSeen(u)[f]
             /\ IF reply'.special = "second_chef"
                THEN users'[u].has_second_chef_done = 1
                     /\ users'[u].next_order_half = 1
                ELSE users'[u].has_second_chef_done
                        = RowSeen(u).has_second_chef_done]_vars
  /\ [][\A u \in DOMAIN users :
          /\ \A f \in FlagNames \ {"has_second_chef_done"} :
                (HasRow(u) /\ users'[u][f] # users[u][f]) =>
                   (Completes /\ lastDoneTag' = TagOfFlag(f))
          /\ (HasRow(u) /\ users'[u].has_second_chef_done
                             # users[u].has_second_chef_done) =>
                (NewOrderStep /\ reply'.special = "second_chef")]_vars

\* the second-chef event has just triggered
C8_Witness ==
  /\ reply.op = "new"
  /\ reply.special = "second_chef"
  /\ \E u \in DOMAIN users :
        /\ HasRow(u)
        /\ users[u].has_second_chef_done = 1
        /\ users[u].next_order_half = 1
        /\ users[u].last_order_json # SqlNull

\* C9 (as stated): between any two special-event triggers of a user, the
\* second_chef trigger that creates no order included, at least one untagged
\* regular order is created and completed.
C9_NoBackToBackTriggers ==
  [][(NewOrderStep /\ reply'.special # None) =>
       gap \in {"never", "completed"}]_vars

\* a dish of the catalog with its crosses halved
IsHalvedCatalogDish(d) ==
  \E lv \in DOMAIN DISHES_BY_LEVEL : \E j \in DOMAIN DISHES_BY_LEVEL[lv] :
     /\ d[1] = DISHES_BY_LEVEL[lv][j][1]
     /\ d[2] = Max(1, DISHES_BY_LEVEL[lv][j][2] \div 2)

\* an order of 3 dishes of the catalog, each with its crosses halved
IsHalvedOrder(dishes) ==
  /\ Len(dishes) = 3
  /\ \A i \in DOMAIN dishes : IsHalvedCatalogDish(dishes[i])

C12_DirtyPlateDoublesLastOrder ==
  [][(NewOrderStep /\ reply'.special = "dirty_plate") =>
       \A u \in DOMAIN users :
          (HasRow(u) /\ users[u].last_order_json # SqlNull) =>
             LET last == users[u].last_order_json.dishes
                 act == users'[u].active_order_json
             IN  /\ act # SqlNull
                 /\ act.tag = "dirty_plate"
                 /\ Len(act.dishes) = Len(last)
                 /\ \A i \in DOMAIN last :
                       /\ act.dishes[i][1] = last[i][1]
                       /\ act.dishes[i][2] = 2 * last[i][2]]_vars

\* the dirty plate has doubled a last order of three dishes
C12_Witness ==
  /\ reply.op = "new"
  /\ reply.special = "dirty_plate"
  /\ \E u \in DOMAIN users :
        /\ HasRow(u)
        /\ users[u].last_order_json # SqlNull
        /\ users[u].active_order_json # SqlNull
        /\ users[u].active_order_json.tag = "dirty_plate"
        /\ Len(users[u].active_order_json.dishes) = 3
        /\ \A i \in 1..3 :
              users[u].active_order_json.dishes[i][2]
                = 2 * users[u].last_order_json.dishes[i][2]

\* C14: when the student or the critic event triggers, the saved active order
\* is exactly one dish, the event's predetermined (name, crosses) pair with
\* 100 crosses for the student and 1000 for the critic, and its tag is the
\* event's tag.
C14_FixedDishOrder ==
  [][(NewOrderStep /\ reply'.special \in {"student", "critic"}) =>
       \A u \in DOMAIN users :
          LET act == users'[u].active_order_json
              crosses == IF reply'.special = "student" THEN 100 ELSE 1000
              name == IF reply'.special = "student" THEN "noodles" ELSE "oysters"
          IN  /\ act # SqlNull
              /\ act.tag = reply'.special
              /\ act.dishes = << <<name, crosses>> >>]_vars

\* the critic's order of 1000 crosses is the active order
C14_Witness ==
  /\ reply.op = "new"
  /\ reply.special = "critic"
  /\ \E u \in DOMAIN users :
        /\ HasRow(u)
        /\ users[u].active_order_json # SqlNull
        /\ users[u].active_order_json.tag = "critic"
        /\ SumCrosses(users[u].active_order_json.dishes) = 1000

\* C15: a special event triggers only when order_index = total_orders + 1 is
\* inside its window, 3..40 for dirty_plate, student and second_chef and 20..40
\* for critic; the first two orders of a user are untagged regular orders, and
\* no event triggers once total_orders >= 40.
C15_TriggersInsideWindow ==
  [][NewOrderStep =>
       \A u \in DOMAIN users :
          LET idx == RowSeen(u).total_orders + 1
              t == reply'.special
          IN  /\ t \in {"dirty_plate", "student", "second_chef"}
                   => (3 <= idx /\ idx <= 40)
              /\ t = "critic" => (20 <= idx /\ idx <= 40)
              /\ (RowSeen(u).total_orders >= 40 \/ idx <= 2) => t = None
              /\ (idx <= 2 /\ reply'.op = "new") =>
                    /\ users'[u].active_order_json # SqlNull
                    /\ users'[u].active_order_json.tag = JsonNull
                    /\ Len(users'[u].active_order_json.dishes) = 3]_vars

\* an event has triggered on the last order of the windows, order 40
C15_Witness ==
  /\ reply.op = "new"
  /\ reply.special \in EventTags
  /\ \E u \in DOMAIN users : HasRow(u) /\ users[u].total_orders = 39

\* C19: a user has at most one active order and it is never replaced while
\* pending: a new-order request made while an active order exists creates no
\* order, triggers no special event, and leaves the active order and every
\* other field of the user unchanged; the active order disappears only through
\* a done request.
C19_ActiveOrderNotReplaced ==
  /\ [][\A u \in DOMAIN users :
          (HasRow(u) /\ users[u].active_order_json # SqlNull) =>
             /\ NewOrderStep =>
                  /\ users'[u] = users[u]
                  /\ reply'.op = "already"
                  /\ reply'.special = None
             /\ users'[u].active_order_json # users[u].active_order_json =>
                  /\ users'[u].active_order_json = SqlNull
                  /\ Completes
                  /\ reply'.op = "done"]_vars

\* a new-order request was refused while a tagged order was pending
C19_Witness ==
  /\ reply.op = "already"
  /\ \E u \in DOMAIN users :
        /\ HasRow(u)
        /\ users[u].active_order_json # SqlNull
        /\ users[u].active_order_json.tag # JsonNull

\* the events in the order the claim gives
C16_Order == <<"dirty_plate", "student", "critic", "second_chef">>

\* event j is in its window for idx and not flagged done
C16_Eligible(j, idx, user_flags) ==
  LET cfg == ConfigOf(C16_Order[j])
  IN  /\ cfg.min_order_index <= idx
      /\ idx <= cfg.max_order_index
      /\ user_flags[cfg.user_flag] = 0

\* the number of events up to j that are eligible: the position of the draw
\* made for event j when every eligible event up to j is evaluated
C16_Rank(j, idx, user_flags) ==
  Cardinality({i \in 1..j : C16_Eligible(i, idx, user_flags)})

\* event j is eligible and its draw is below its probability
C16_Passes(j, idx, user_flags, draws) ==
  /\ C16_Eligible(j, idx, user_flags)
  /\ draws[C16_Rank(j, idx, user_flags)] < ConfigOf(C16_Order[j]).probability

\* C16: check_special_order evaluates the events in the order dirty_plate,
\* student, critic, second_chef and returns the first one that is in its
\* window, not flagged done and whose draw is below its probability (None when
\* there is none); no event after the returned one is evaluated: the result
\* is the same whatever the random source would return after the draw of the
\* returned event.
C16_FirstPassingEventWins ==
  result.fn = "check_special_order" =>
     LET idx == result.idx
         fl == result.user_flags
         passing == {j \in 1..4 : C16_Passes(j, idx, fl, result.draws)}
         first == CHOOSE j \in passing : \A k \in passing : j <= k
         used == IF passing = {} THEN C16_Rank(4, idx, fl)
                 ELSE C16_Rank(first, idx, fl)
     IN  /\ result.tag = IF passing = {} THEN None ELSE C16_Order[first]
         /\ \A d2 \in DrawSeqs :
               (\A k \in 1..used : d2[k] = result.draws[k]) =>
                  check_special_order(idx, fl, d2) = result.tag

\* second_chef is returned for order 20 after dirty_plate was skipped as done
\* and student and critic failed their draws, with a last draw left unused
C16_Witness ==
  /\ result.fn = "check_special_order"
  /\ result.tag = "second_chef"
  /\ result.idx = 20
  /\ result.user_flags["has_dirty_plate_done"] = 1
  /\ result.user_flags["has_student_done"] = 0
  /\ result.user_flags["has_critic_done"] = 0
  /\ result.draws = <<12, 11, 0, 0>>

\* C11 (as stated): for every order halved by the second-chef event, every
\* dish has crosses >= 1 and the total of the halved order equals half of the
\* total of the order before halving (integer division), for all dish values
\* of the catalog, odd values and the value 1 included.
C11_HalvedTotalIsHalf ==
  result.fn = "half_order" =>
     /\ \A i \in DOMAIN result.halved : result.halved[i][2] >= 1
     /\ SumCrosses(result.halved) = SumCrosses(result.dishes) \div 2

\* the names of the dishes of an order
NamesOf(dishes) == {dishes[i][1] : i \in DOMAIN dishes}

\* the dishes of a pool, as a set
DishesOf(pool) == {pool[i] : i \in DOMAIN pool}

\* C17 (as stated): for every level L in 0..3 and every catalog in which each
\* level has at least one dish and level 0 at least three differently named
\* dishes, a regular order is exactly 3 dishes that are pairwise distinct by
\* name, each with crosses >= 1, all taken from levels 0..L and at least one
\* of them from level L.
C17_ThreeDistinctNames ==
  (result.fn = "generate_regular_order" /\ result.level \in 0..3) =>
     /\ Len(result.dishes) = 3
     /\ Cardinality(NamesOf(result.dishes)) = 3
     /\ \A i \in 1..3 :
           /\ result.dishes[i][2] >= 1
           /\ result.dishes[i] \in DishesOf(Opened(DISHES_BY_LEVEL, result.level))
     /\ \E i \in 1..3 :
           result.dishes[i] \in DishesOf(DISHES_BY_LEVEL[result.level])

\* C18 (as stated): regular generation caps the dish level at 3: for a user at
\* level 4 (MAX_LEVEL) the first dish is drawn from the level-3 pool and the
\* other two from the pools of levels 0..3, as for a user at level 3.
C18_DishLevelCappedAt3 ==
  (result.fn = "generate_regular_order" /\ result.level = MAX_LEVEL) =>
     /\ result.dishes[1] \in DishesOf(DISHES_BY_LEVEL[3])
     /\ \A i \in 2..3 :
           result.dishes[i] \in DishesOf(Opened(DISHES_BY_LEVEL, 3))

\* a dish of the catalog, as it is or with its crosses halved
IsRegularDish(d) ==
  \E lv \in DOMAIN DISHES_BY_LEVEL : \E j \in DOMAIN DISHES_BY_LEVEL[lv] :
     /\ d[1] = DISHES_BY_LEVEL[lv][j][1]
     /\ d[2] \in {DISHES_BY_LEVEL[lv][j][2],
                  Max(1, DISHES_BY_LEVEL[lv][j][2] \div 2)}

\* C13: when the dirty-plate event triggers and the user has no last order,
\* the request does not fail: it saves an untagged regular 3-dish order as the
\* active order, and has_dirty_plate_done stays false, so that the event can
\* still trigger later.
C13_DirtyPlateFallsThrough ==
  [][(NewOrderStep /\ reply'.special = "dirty_plate") =>
       \A u \in DOMAIN users :
          (HasRow(u) /\ users[u].last_order_json = SqlNull) =>
             /\ reply'.op = "new"
             /\ users'[u].active_order_json # SqlNull
             /\ users'[u].active_order_json.tag = JsonNull
             /\ Len(users'[u].active_order_json.dishes) = 3
             /\ \A i \in 1..3 :
                   IsRegularDish(users'[u].active_order_json.dishes[i])
             /\ users'[u].has_dirty_plate_done = 0
             /\ users'[u].last_order_json = SqlNull]_vars

\* the dirty plate has triggered for a user without last order, who received
\* an untagged order
C13_Witness ==
  /\ reply.op = "new"
  /\ reply.special = "dirty_plate"
  /\ \E u \in DOMAIN users :
        /\ HasRow(u)
        /\ users[u].total_orders >= 2
        /\ users[u].last_order_json = SqlNull
        /\ users[u].has_dirty_plate_done = 0
        /\ users[u].active_order_json # SqlNull
        /\ users[u].active_order_json.tag = JsonNull

\* C20 (as stated): completing an order is all-or-nothing: if a storage write
\* made during finish_order_and_level fails, the user's row is exactly as
\* before the call: total_orders, total_crosses, level, the four flags, the
\* active order and last_order keep their values.
C20_FinishAllOrNothing ==
  [][(fault' \in FinishWrites /\ reply'.op \in {"done", "error"}) =>
       \A u \in DOMAIN users : HasRow(u) => users'[u] = users[u]]_vars

\* C22: a done request made while the user has no active order changes
\* nothing: total_orders, total_crosses, level, the flags and last_order stay
\* the same; so of two consecutive done requests with no new order created
\* between them only the first counts the order.
C22_DoneWithoutOrderChangesNothing ==
  /\ [][reply'.op = "no_active" =>
          /\ \A u \in DOMAIN users : HasRow(u) => users'[u] = users[u]
          /\ nDone' = nDone /\ sumDone' = sumDone]_vars
  /\ [][(reply.op = "done" /\ reply'.op \in {"done", "no_active"}) =>
          /\ reply'.op = "no_active"
          /\ \A u \in DOMAIN users : users'[u] = users[u]]_vars

\* a second done request followed a completion and was answered "no order"
C22_Witness ==
  /\ reply.op = "no_active"
  /\ nDone >= 3
  /\ \E u \in DOMAIN users :
        /\ HasRow(u)
        /\ users[u].total_orders = nDone
        /\ users[u].active_order_json = SqlNull
        /\ users[u].last_order_json # SqlNull

\* the achievement text of a threshold
C25_Text(T) ==
  CASE T = 40 -> "GAME_COMPLETE"
    [] T = 100 -> "TROPHY_GOLD"
    [] T = 200 -> "TROPHY_DIAMOND"

\* C25: for each threshold T in {40, 100, 200} the achievement text of T is
\* appended to exactly one done reply of a user: the reply to the completion
\* that makes total_orders equal to T, and to no other reply.
C25_AchievementOncePerThreshold ==
  /\ [][Completes =>
          \A u \in DOMAIN users : \A T \in {40, 100, 200} :
             /\ users'[u].total_orders = RowSeen(u).total_orders + 1
             /\ (reply'.bonus = C25_Text(T)) <=> (users'[u].total_orders = T)]_vars
  /\ [](reply.bonus # "" =>
          /\ reply.op = "done"
          /\ \E T \in {40, 100, 200} :
                reply.bonus = C25_Text(T) /\ nDone = T /\ reply.fin.total = T)

\* the 200th completion was answered with the last achievement
C25_Witness ==
  /\ reply.op = "done"
  /\ reply.bonus = "TROPHY_DIAMOND"
  /\ \E u \in DOMAIN users : HasRow(u) /\ users[u].total_orders = 200

\* a new-order step that saved an active order for u
Creates(u) ==
  /\ NewOrderStep
  /\ RowSeen(u).active_order_json = SqlNull
  /\ users'[u].active_order_json # SqlNull

\* C26: the crosses credited to total_crosses when an order is completed equal
\* the total announced when the order was created: the sum of the dishes'
\* crosses for a regular or halved order, the doubled_crosses value for a
\* dirty-plate order.
C26_CreditedEqualsAnnounced ==
  /\ [][\A u \in DOMAIN users :
          (Creates(u) /\ users'[u].active_order_json.tag \in {JsonNull, "dirty_plate"})
             => reply'.total = SumCrosses(users'[u].active_order_json.dishes)]_vars
  /\ [](\A u \in DOMAIN users :
          (HasRow(u) /\ users[u].active_order_json # SqlNull
             /\ users[u].active_order_json.tag \in {JsonNull, "dirty_plate"}
             /\ reply.op \in {"new", "show"})
             => reply.total = SumCrosses(users[u].active_order_json.dishes))
  /\ [][Completes =>
          \A u \in DOMAIN users :
             HasRow(u) =>
                users'[u].total_crosses - users[u].total_crosses
                  = SumCrosses(users[u].active_order_json.dishes)]_vars

\* a dirty-plate order that doubles a halved order was announced with 14
C26_Witness ==
  /\ reply.op = "new"
  /\ reply.special = "dirty_plate"
  /\ reply.total = 14
  /\ \E u \in DOMAIN users :
        /\ HasRow(u)
        /\ users[u].active_order_json # SqlNull
        /\ SumCrosses(users[u].active_order_json.dishes) = 14
        /\ users[u].last_order_json.crosses = 7

\* C28 (as stated): after the second-chef event triggers for a user, the next
\* order saved as active order for that user is a halved order.
C28_NextOrderAfterChefIsHalved ==
  [][\A u \in DOMAIN users :
        (HasRow(u) /\ users[u].next_order_half = 1 /\ Creates(u)) =>
           /\ users'[u].active_order_json.tag = JsonNull
           /\ IsHalvedOrder(users'[u].active_order_json.dishes)]_vars

\* an order of 3 dishes of the catalog with their crosses as in the catalog
IsFullOrder(dishes) ==
  /\ Len(dishes) = 3
  /\ \A i \in DOMAIN dishes :
        \E lv \in DOMAIN DISHES_BY_LEVEL : \E j \in DOMAIN DISHES_BY_LEVEL[lv] :
           dishes[i] = DISHES_BY_LEVEL[lv][j]

C21_FinishWithoutRowFails ==
  [][\A u \in DOMAIN users :
        (result'.fn = "finish_order_and_level" /\ result'.user_id = u
           /\ users[u] = NoRow) =>
          /\ result'.raised = "ValueError"
          /\ users'[u] = NoRow
          /\ \A v \in DOMAIN users : users'[v] = users[v]]_vars

\* the call was refused for a user without row while another user has a row
\* with a completed order
C21_Witness ==
  /\ result.fn = "finish_order_and_level"
  /\ result.raised = "ValueError"
  /\ users[result.user_id] = NoRow
  /\ \E v \in DOMAIN users : HasRow(v) /\ users[v].total_orders >= 1

\* the row a first contact creates
FreshRow(first_name) ==
  [first_name |-> IF first_name = "" THEN "Guest" ELSE first_name,
   level |-> 0, total_orders |-> 0, total_crosses |-> 0,
   has_student_done |-> 0, has_dirty_plate_done |-> 0, has_critic_done |-> 0,
   has_second_chef_done |-> 0, next_order_half |-> 0,
   last_order_json |-> SqlNull, active_order_json |-> SqlNull]

\* C23: after an admin reset, the first fetch of any previously known user id
\* returns a fresh user: level 0, total_orders 0, total_crosses 0, the four
\* one-time flags false, no pending half-order flag, no active order and no
\* last order, whatever the state before the reset.
C23_ResetGivesFreshUsers ==
  /\ [][(result'.fn = "cmd_reset" /\ result'.admin) =>
          \A u \in DOMAIN users :
             \A n \in DbNames : fetch_user(users', u, n).user = FreshRow(n)]_vars
  /\ [][(result.fn = "cmd_reset" /\ result.admin /\ result'.fn = "fetch_user") =>
          /\ \E n \in DbNames : result'.user = FreshRow(n)
          /\ users'[result'.user_id] = result'.user]_vars

\* a fetch returned a fresh user although orders had been completed and the
\* student's flag set before: a reset lies between
C23_Witness ==
  /\ result.fn = "fetch_user"
  /\ nDone = 2
  /\ \A u \in DOMAIN users :
        HasRow(u) => (users[u].total_orders = 0 /\ users[u].has_student_done = 0
                      /\ users[u].last_order_json = SqlNull)
  /\ result.user.total_orders = 0

\* C24: ensure_user is idempotent: on a user id that already has a row it
\* changes no field of the row, also when a different first name is passed,
\* and calling it twice on an absent id has the same result as calling it
\* once.
C24_EnsureUserIdempotent ==
  [][result'.fn = "ensure_user" =>
       LET u == result'.user_id
       IN  /\ \A v \in DOMAIN users : v # u => users'[v] = users[v]
           /\ IF HasRow(u) THEN users'[u] = users[u]
              ELSE users'[u] = FreshRow(result'.first_name)
           /\ \A n \in DbNames : ensure_user(users', u, n) = users']_vars

\* ensure_user was called with another first name on a row that has a
\* completed order
C24_Witness ==
  /\ result.fn = "ensure_user"
  /\ result.first_name = ""
  /\ HasRow(result.user_id)
  /\ users[result.user_id].first_name = "Ann"
  /\ users[result.user_id].total_orders >= 1
  /\ users[result.user_id].last_order_json # SqlNull

\* C27: generate_regular_order terminates and returns 3 dishes for every
\* level 0..MAX_LEVEL and every catalog in which every level has at least one
\* dish, also when the opened pool and the level-0 pool together hold fewer
\* than 3 distinct dishes.
C27_GenerateReturnsThree ==
  result.fn = "generate_regular_order" =>
    (result.returns /\ Len(result.dishes) = 3)

\* C30: a new-order request is all-or-nothing: if saving the active order
\* fails, the user's row is unchanged; in particular a pending next_order_half
\* flag is still set.
C30_NewOrderAllOrNothing ==
  [][fault' = "save_active_order" =>
       \A u \in DOMAIN users : HasRow(u) => users'[u] = users[u]]_vars

\* C32: an order tagged dirty_plate is always the doubling of an untagged
\* order: the student order (100) and the critic order (1000) are never
\* doubled, because the dirty-plate event can trigger only when the last
\* completed order has no tag.
C32_DirtyPlateDoublesUntagged ==
  [][\A u \in DOMAIN users :
        (/\ RowSeen(u).active_order_json = SqlNull
         /\ users'[u].active_order_json # SqlNull
         /\ users'[u].active_order_json.tag = "dirty_plate") =>
          LET last == get_last_order(users, u)
          IN  /\ last # NoOrder
              /\ last.tag = None
              /\ users'[u].active_order_json.dishes = DoubleDishes(last.dishes)
              /\ \A t \in {"student", "critic"} :
                    /\ ~InSeq(ConfigOf(t).dish, last.dishes)
                    /\ ~InSeq(<<ConfigOf(t).dish[1], 2 * ConfigOf(t).dish[2]>>,
                              users'[u].active_order_json.dishes)]_vars

\* a dirty-plate order was created for a user who had completed a student
\* order before: the order doubled is an untagged one
C32_Witness ==
  /\ reply.op = "new"
  /\ reply.special = "dirty_plate"
  /\ \E u \in DOMAIN users :
        /\ HasRow(u)
        /\ users[u].has_student_done = 1
        /\ users[u].active_order_json # SqlNull
        /\ users[u].active_order_json.tag = "dirty_plate"
        /\ get_last_order(users, u).tag = None

\* C33: in every state reachable from a fresh user through new-order and done
\* requests, total_orders >= 1 implies that last_order exists with a non-empty
\* dish list; hence whenever the dirty-plate event triggers a last order is
\* found and the fall-through to a regular order is never taken.
C33_LastOrderExistsAfterFirstDone ==
  /\ \A u \in DOMAIN users :
        (HasRow(u) /\ users[u].total_orders >= 1) =>
           /\ get_last_order(users, u) # NoOrder
           /\ get_last_order(users, u).dishes # <<>>
  /\ (reply.op = "new" /\ reply.special = "dirty_plate") =>
        \A u \in DOMAIN users :
           HasRow(u) => (/\ users[u].active_order_json # SqlNull
                         /\ users[u].active_order_json.tag = "dirty_plate")

\* C34: between admin resets each special event happens at most once per
\* user under sequential request handling: at most one order tagged student,
\* one tagged critic and one tagged dirty_plate is ever created, and the
\* second-chef event triggers at most once, even though the student, critic
\* and dirty_plate flags are set only when the order is completed.
C34_EachEventAtMostOnce ==
  \A t \in EventTags : nEvent[t] <= 1

\* all four events have happened, and the order of the last one, a critic's,
\* is not completed yet: its flag is still unset
C34_Witness ==
  /\ \A t \in EventTags : nEvent[t] = 1
  /\ \E u \in DOMAIN users :
        /\ HasRow(u)
        /\ users[u].has_critic_done = 0
        /\ users[u].active_order_json # SqlNull
        /\ users[u].active_order_json.tag = "critic"

\* C31: when two done requests of the same user interleave at the
\* granularity of their storage operations (both read the active order before
\* either completes it), the single active order is counted once:
\* total_orders grows by 1 and total_crosses by the order's crosses once, and
\* at most one level-up happens.
C31_ActiveOrderCountedOnce ==
  \A h \in Handlers, g \in Handlers :
     (/\ h # g
      /\ handlers[h].pc = "written"
      /\ handlers[g].pc = "written"
      /\ handlers[h].user_id = handlers[g].user_id
      /\ handlers[h].user.total_orders = handlers[g].user.total_orders) =>
        LET u == handlers[h].user_id
            before == handlers[h].user
        IN  /\ users[u].total_orders = before.total_orders + 1
            /\ users[u].total_crosses =
                 before.total_crosses + SumCrosses(handlers[h].active.dishes)
            /\ users[u].level <= before.level + 1

====
